---- MODULE Spec2Model ----
(***************************************************************************)
(* Model of the pymcuprog command line front end                           *)
(* (src/pymcuprog/pymcuprog.py): the value literal parsers _parse_literal  *)
(* and _parse_direct, the logging bootstrap setup_logging, and the         *)
(* parse / bootstrap / dispatch sequence of main.                          *)
(***************************************************************************)
EXTENDS Integers, Sequences, FiniteSets, TLC

VARIABLES
    token,          \* the command line token handed to a literal parser
    pfunc,          \* the parser that was applied to it
    presult,        \* what the parser returned or raised
    verdict,        \* what argparse made of it
    logdirExists,   \* the user log directory exists
    active,         \* the process wide logging configuration
    calls,          \* the calls of setup_logging so far: inputs and outcome
    mpc,            \* where main is
    argv,           \* the raw process arguments
    arguments,      \* the namespace parse_args returned
    trace,          \* the phases main has entered, in order
    bootstrap,      \* the outcome of main's call of setup_logging
    engine,         \* what the engine call did
    logged,         \* the calls main made on its logger
    mresult         \* how main ended

pvars == <<token, pfunc, presult, verdict>>

lvars == <<logdirExists, active, calls>>

mvars == <<mpc, argv, arguments, trace, bootstrap, engine, logged, mresult>>

vars == <<token, pfunc, presult, verdict, logdirExists, active, calls,
          mpc, argv, arguments, trace, bootstrap, engine, logged, mresult>>

(***************************************************************************)
(* Bounds                                                                  *)
(***************************************************************************)
\* longest command line token enumerated character by character
MaxLen == 4

\* most handlers declared in a logging configuration file
MaxHandlers == 2

\* most calls of setup_logging in one process
MaxCalls == 2

(***************************************************************************)
(* Tokens are sequences of one-character strings.                          *)
(***************************************************************************)
Digits == {"0", "1", "3", "4", "5"}

\* characters the enumerated tokens are built from
Chars == {"0", "1", "5", "x", ".", ":", "-"}

RECURSIVE SeqsUpTo(_)
SeqsUpTo(n) ==
    IF n = 0 THEN {<<>>}
    ELSE LET shorter == SeqsUpTo(n - 1)
         IN  shorter \cup {Append(s, c) : s \in {t \in shorter : Len(t) = n - 1}, c \in Chars}

\* the tokens of the documented examples: "0x10", "4:0x10", "3.5", "1:2:3"
ScenarioTokens ==
    { <<"0", "x", "1", "0">>,
      <<"4", ":", "0", "x", "1", "0">>,
      <<"3", ".", "5">>,
      <<"1", ":", "3", ":", "4">> }

Tokens == (SeqsUpTo(MaxLen) \ {<<>>}) \cup ScenarioTokens

DigitVal(c) ==
    CASE c = "0" -> 0 [] c = "1" -> 1 [] c = "3" -> 3 [] c = "4" -> 4 [] c = "5" -> 5
      [] OTHER -> 0

AllIn(s, S) == \A i \in 1..Len(s) : s[i] \in S

RECURSIVE Fold(_, _)
\* value of a digit string in the given base
Fold(s, base) ==
    IF Len(s) = 0 THEN 0
    ELSE Fold(SubSeq(s, 1, Len(s) - 1), base) * base + DigitVal(s[Len(s)])

Contains(s, c) == \E i \in 1..Len(s) : s[i] = c

\* position of the first occurrence of c in s, Len(s)+1 when there is none
FirstPos(s, c) ==
    IF Contains(s, c) THEN CHOOSE i \in 1..Len(s) : s[i] = c /\ \A j \in 1..(i - 1) : s[j] # c
    ELSE Len(s) + 1

RECURSIVE Split(_, _)
\* str.split(sep): the fields between the separators, empty fields included
Split(s, c) ==
    IF ~Contains(s, c) THEN <<s>>
    ELSE LET p == FirstPos(s, c)
         IN  <<SubSeq(s, 1, p - 1)>> \o Split(SubSeq(s, p + 1, Len(s)), c)

\* the slice [:2]
FirstTwo(parts) == SubSeq(parts, 1, IF Len(parts) < 2 THEN Len(parts) ELSE 2)

(***************************************************************************)
(* Python numbers.  An int is num with scale 0; a float is the decimal     *)
(* num * 10^(-scale), kept normalised so that equal floats are equal       *)
(* records.                                                                *)
(***************************************************************************)
PyInt(n) == [type |-> "int", num |-> n, scale |-> 0]

RECURSIVE Normalise(_, _)
Normalise(n, sc) ==
    IF sc > 0 /\ n % 10 = 0 THEN Normalise(n \div 10, sc - 1)
    ELSE [type |-> "float", num |-> n, scale |-> sc]

PyFloat(n, sc) == Normalise(n, sc)

\* an optional leading minus sign and the rest of the token
Sign(s) ==
    IF Len(s) > 0 /\ s[1] = "-" THEN [neg |-> TRUE, body |-> Tail(s)]
    ELSE [neg |-> FALSE, body |-> s]

Signed(neg, n) == IF neg THEN 0 - n ELSE n

\* int(x, 0): sign, then 0x and hexadecimal digits, or decimal digits without
\* a leading zero (a string of zeros is accepted)
IntBase0(s) ==
    LET sg == Sign(s)
        b == sg.body
        hex == Len(b) >= 2 /\ b[1] = "0" /\ b[2] = "x"
        hd == SubSeq(b, 3, Len(b))
    IN  IF hex
        THEN IF Len(hd) > 0 /\ AllIn(hd, Digits)
             THEN [ok |-> TRUE, val |-> PyInt(Signed(sg.neg, Fold(hd, 16)))]
             ELSE [ok |-> FALSE, val |-> PyInt(0)]
        ELSE IF Len(b) > 0 /\ AllIn(b, Digits) /\ (b[1] # "0" \/ AllIn(b, {"0"}))
             THEN [ok |-> TRUE, val |-> PyInt(Signed(sg.neg, Fold(b, 10)))]
             ELSE [ok |-> FALSE, val |-> PyInt(0)]

RECURSIVE Without(_, _)
Without(s, c) ==
    IF Len(s) = 0 THEN <<>>
    ELSE IF s[1] = c THEN Without(Tail(s), c) ELSE <<s[1]>> \o Without(Tail(s), c)

\* float(x): sign, then decimal digits with at most one point and at least
\* one digit
FloatOf(s) ==
    LET sg == Sign(s)
        b == sg.body
        ds == Without(b, ".")
    IN  IF AllIn(b, Digits \cup {"."}) /\ Len(ds) > 0 /\ Len(b) - Len(ds) <= 1
        THEN [ok |-> TRUE,
              val |-> PyFloat(Signed(sg.neg, Fold(ds, 10)),
                              IF Contains(b, ".") THEN Len(b) - FirstPos(b, ".") ELSE 0)]
        ELSE [ok |-> FALSE, val |-> PyInt(0)]

(***************************************************************************)
(* Outcomes of a call of a parser                                          *)
(***************************************************************************)
Scalar(v) == [kind |-> "scalar", items |-> <<v>>]
List(vs) == [kind |-> "list", items |-> vs]
None == [kind |-> "None", items |-> <<>>]
ValueError == [kind |-> "ValueError", items |-> <<>>]
NotCalled == [kind |-> "not called", items |-> <<>>]

\* lambda x: int(x, 0) and lambda x: float(x) over the parts
Ints(parts) == [i \in 1..Len(parts) |-> IntBase0(parts[i])]

Floats(parts) == [i \in 1..Len(parts) |-> FloatOf(parts[i])]

\* list(map(f, parts)) from the conversions of the parts: their values, or
\* ValueError when a conversion fails
MapAll(converted) ==
    IF \A i \in 1..Len(converted) : converted[i].ok
    THEN List([i \in 1..Len(converted) |-> converted[i].val])
    ELSE ValueError

\* _parse_literal trying float() before int()
_parse_literal_float_first(literal) ==
    IF Contains(literal, ":")
    THEN MapAll(Ints(FirstTwo(Split(literal, ":"))))
    ELSE IF FloatOf(literal).ok THEN Scalar(FloatOf(literal).val)
         ELSE IF IntBase0(literal).ok THEN Scalar(IntBase0(literal).val)
              ELSE ValueError

\* _parse_literal with the float fallback of _parse_direct in the colon form
_parse_literal_colon_float(literal) ==
    IF Contains(literal, ":")
    THEN LET ints == MapAll(Ints(FirstTwo(Split(literal, ":"))))
         IN  IF ints # ValueError THEN ints
             ELSE MapAll(Floats(FirstTwo(Split(literal, ":"))))
    ELSE IF IntBase0(literal).ok THEN Scalar(IntBase0(literal).val)
         ELSE IF FloatOf(literal).ok THEN Scalar(FloatOf(literal).val)
              ELSE ValueError

_parse_literal(literal) ==
    IF Contains(literal, ":")
    THEN MapAll(Ints(FirstTwo(Split(literal, ":"))))
    ELSE IF IntBase0(literal).ok THEN Scalar(IntBase0(literal).val)
         ELSE IF FloatOf(literal).ok THEN Scalar(FloatOf(literal).val)
              ELSE ValueError

\* int() or else float(), part by part
IntsOrFloats(parts) ==
    [i \in 1..Len(parts) |-> IF IntBase0(parts[i]).ok THEN IntBase0(parts[i])
                             ELSE FloatOf(parts[i])]

\* _parse_direct falling back to float for each half on its own
_parse_direct_per_half(literal) ==
    IF Contains(literal, ":")
    THEN MapAll(IntsOrFloats(FirstTwo(Split(literal, ":"))))
    ELSE None

\* _parse_direct parsing a token without a colon as a scalar
_parse_direct_scalar(literal) ==
    IF Contains(literal, ":")
    THEN LET ints == MapAll(Ints(FirstTwo(Split(literal, ":"))))
         IN  IF ints # ValueError THEN ints
             ELSE MapAll(Floats(FirstTwo(Split(literal, ":"))))
    ELSE IF IntBase0(literal).ok THEN Scalar(IntBase0(literal).val)
         ELSE IF FloatOf(literal).ok THEN Scalar(FloatOf(literal).val)
              ELSE ValueError

_parse_direct(literal) ==
    IF Contains(literal, ":")
    THEN LET ints == MapAll(Ints(FirstTwo(Split(literal, ":"))))
         IN  IF ints # ValueError THEN ints
             ELSE MapAll(Floats(FirstTwo(Split(literal, ":"))))
    ELSE None

\* argparse applies the option's type function to one argument string: a
\* ValueError becomes a usage error, any returned value r is stored
GetValue(r) ==
    [result |-> r, verdict |-> IF r = ValueError THEN "usage error" ELSE "accepted"]

(***************************************************************************)
(* Logging levels: getattr(logging, name)                                  *)
(***************************************************************************)
Levels == [DEBUG |-> 10, INFO |-> 20, WARNING |-> 30, ERROR |-> 40, CRITICAL |-> 50]

\* a key that the document does not have
Missing == "<missing>"

LevelOf(name) ==
    IF name \in DOMAIN Levels THEN [ok |-> TRUE, val |-> Levels[name]]
    ELSE [ok |-> FALSE, val |-> 0]

Min(a, b) == IF a <= b THEN a ELSE b

(***************************************************************************)
(* The configuration source as one call of setup_logging finds it          *)
(***************************************************************************)
\* levels a caller requests
RequestedLevels == {Levels.DEBUG, Levels.INFO, Levels.ERROR}

\* level names written in a handler: two known to logging, one unknown
HandlerLevelNames == {"DEBUG", "ERROR", "VERBOSE"}

\* level names written in the root section
RootLevelNames == {"WARNING", "VERBOSE"}

\* names of the handlers other than 'console', in order of appearance
OtherNames == <<"logfile", "debugfile", "errorfile", "tracefile", "auditfile">>

HasName(hs, n) == \E i \in 1..Len(hs) : hs[i].name = n

\* the name of a handler appended to the list hs: 'console' when the list has
\* none, or the next other name
NextNames(hs) ==
    (IF HasName(hs, "console") THEN {} ELSE {"console"})
    \cup {OtherNames[Cardinality({i \in 1..Len(hs) : hs[i].name # "console"}) + 1]}

RECURSIVE HandlerLists(_)
\* the 'handlers' mappings of at most n handlers, in document order
HandlerLists(n) ==
    IF n = 0 THEN {<<>>}
    ELSE LET shorter == HandlerLists(n - 1)
         IN  shorter \cup
             UNION {{Append(hs, [name |-> nm, hasFilename |-> f, level |-> lv]) :
                         nm \in NextNames(hs), f \in BOOLEAN,
                         lv \in HandlerLevelNames \cup {Missing}} :
                    hs \in {t \in shorter : Len(t) = n - 1}}

NoHandlers == <<>>

Document(kind, hasHandlers, handlers, hasRoot, rootLevel) ==
    [kind |-> kind, hasHandlers |-> hasHandlers, handlers |-> handlers,
     hasRoot |-> hasRoot, rootLevel |-> rootLevel]

EmptyDocument == Document("None", FALSE, NoHandlers, FALSE, Missing)

Source(exists, load, doc, mkdirOk, dictConfigOk) ==
    [exists |-> exists, load |-> load, doc |-> doc, mkdirOk |-> mkdirOk,
     dictConfigOk |-> dictConfigOk]

\* the documents yaml.safe_load returns: nothing, a sequence, or a mapping
\* with or without the keys the code reads
Documents ==
    {EmptyDocument, Document("sequence", FALSE, NoHandlers, FALSE, Missing)}
    \cup {Document("mapping", FALSE, NoHandlers, hr, rl) :
              hr \in {TRUE}, rl \in {"WARNING"}}
    \cup {Document("mapping", TRUE, hs, FALSE, Missing) : hs \in HandlerLists(MaxHandlers)}
    \cup {Document("mapping", TRUE, hs, TRUE, rl) :
              hs \in HandlerLists(MaxHandlers), rl \in RootLevelNames \cup {Missing}}

\* the path does not exist; the file does not scan; the file scans but does
\* not parse; the file loads
Sources ==
    {Source(FALSE, "ok", EmptyDocument, TRUE, TRUE),
     Source(TRUE, "ScannerError", EmptyDocument, TRUE, TRUE),
     Source(TRUE, "ParserError", EmptyDocument, TRUE, TRUE)}
    \cup {Source(TRUE, "ok", d, m, c) : d \in Documents, m \in BOOLEAN, c \in BOOLEAN}

(***************************************************************************)
(* setup_logging                                                           *)
(***************************************************************************)
NoConfig == [kind |-> "none", root |-> 0, console |-> 0, redirected |-> 0]

\* what one call did: the exception that left it, the lines it printed, the
\* activation it performed and the configuration it handed over
Outcome(raised, printed, activated, config, dirAfter) ==
    [raised |-> raised, printed |-> printed, activated |-> activated,
     config |-> config, dirAfter |-> dirAfter]

\* setup_logging has not been called
NoOutcome == Outcome("none", <<>>, "none", NoConfig, FALSE)

Raise(kind, dirAfter) == Outcome(kind, <<>>, "none", NoConfig, dirAfter)

\* the diagnostic, then the revert to logging.basicConfig(level)
Basic(diagnostic, level, dirAfter) ==
    Outcome("none", <<diagnostic, "Reverting to basic logging.">>, "basicConfig",
            [kind |-> "basic", root |-> level, console |-> level, redirected |-> 0],
            dirAfter)

KeyNotFound(key) == "Key '" \o key \o "' not found in logging config file"

NumFileHandlers(hs) == Cardinality({i \in 1..Len(hs) : hs[i].hasFilename})

RECURSIVE MostVerboseIgnoringFiles(_, _, _)
\* the second loop looking the levels up without folding them into the minimum
MostVerboseIgnoringFiles(hs, i, most) ==
    IF i > Len(hs) THEN [exc |-> "none", val |-> most]
    ELSE IF ~hs[i].hasFilename THEN MostVerboseIgnoringFiles(hs, i + 1, most)
    ELSE IF hs[i].name = "console" THEN [exc |-> "TypeError", val |-> most]
    ELSE IF hs[i].level = Missing THEN [exc |-> "KeyError", val |-> most]
    ELSE IF ~LevelOf(hs[i].level).ok THEN [exc |-> "AttributeError", val |-> most]
    ELSE MostVerboseIgnoringFiles(hs, i + 1, most)

RECURSIVE MostVerbose(_, _, _)
\* the second loop over the handlers, from handler i on: the level of a
\* handler with a filename is looked up by name and folded into the minimum.
\* The console handler's level is by now the requested number, not a name.
MostVerbose(hs, i, most) ==
    IF i > Len(hs) THEN [exc |-> "none", val |-> most]
    ELSE IF ~hs[i].hasFilename THEN MostVerbose(hs, i + 1, most)
    ELSE IF hs[i].name = "console" THEN [exc |-> "TypeError", val |-> most]
    ELSE IF hs[i].level = Missing THEN [exc |-> "KeyError", val |-> most]
    ELSE IF ~LevelOf(hs[i].level).ok THEN [exc |-> "AttributeError", val |-> most]
    ELSE MostVerbose(hs, i + 1, Min(most, LevelOf(hs[i].level).val))

\* Path(logdir).mkdir(exist_ok=True, parents=True)
Mkdir(dirExists, mkdirOk) ==
    IF dirExists THEN [exc |-> "none", dirAfter |-> TRUE]
    ELSE IF mkdirOk THEN [exc |-> "none", dirAfter |-> TRUE]
    ELSE [exc |-> "OSError", dirAfter |-> FALSE]

\* the body of the with statement and dictConfig, for a loaded document
FromDocument(level, src, dirExists) ==
    LET doc == src.doc
        hs == doc.handlers
        made == IF NumFileHandlers(hs) > 0 THEN Mkdir(dirExists, src.mkdirOk)
                ELSE [exc |-> "none", dirAfter |-> dirExists]
        most == MostVerbose(hs, 1, Min(level, LevelOf(doc.rootLevel).val))
    IN  IF doc.kind # "mapping" THEN Raise("TypeError", dirExists)
        ELSE IF ~doc.hasHandlers THEN Basic(KeyNotFound("handlers"), level, dirExists)
        ELSE IF made.exc # "none" THEN Raise(made.exc, made.dirAfter)
        ELSE IF ~HasName(hs, "console")
             THEN Basic(KeyNotFound("console"), level, made.dirAfter)
        ELSE IF ~doc.hasRoot THEN Basic(KeyNotFound("root"), level, made.dirAfter)
        ELSE IF doc.rootLevel = Missing
             THEN Basic(KeyNotFound("level"), level, made.dirAfter)
        ELSE IF ~LevelOf(doc.rootLevel).ok THEN Raise("AttributeError", made.dirAfter)
        ELSE IF most.exc = "KeyError"
             THEN Basic(KeyNotFound("level"), level, made.dirAfter)
        ELSE IF most.exc # "none" THEN Raise(most.exc, made.dirAfter)
        ELSE IF ~src.dictConfigOk THEN Raise("ValueError", made.dirAfter)
        ELSE Outcome("none", <<>>, "dictConfig",
                     [kind |-> "file", root |-> most.val, console |-> level,
                      redirected |-> NumFileHandlers(hs)],
                     made.dirAfter)

setup_logging(level, src, dirExists) ==
    IF ~src.exists
    THEN Basic("Unable to open logging config file", level, dirExists)
    ELSE IF src.load = "ScannerError"
         THEN Basic("Error parsing logging config file", level, dirExists)
    ELSE IF src.load # "ok" THEN Raise(src.load, dirExists)
    ELSE FromDocument(level, src, dirExists)

\* the logging configuration after a call: dictConfig replaces it,
\* basicConfig configures the root logger only if it has no handler yet
Activate(current, out) ==
    IF out.activated = "dictConfig" THEN out.config
    ELSE IF out.activated = "basicConfig" /\ current.kind = "none" THEN out.config
    ELSE current

Call(level, src, out) == [level |-> level, src |-> src, out |-> out]

(***************************************************************************)
(* Calls of setup_logging in one process                                   *)
(***************************************************************************)
LogInit ==
    /\ logdirExists \in BOOLEAN
    /\ active = NoConfig
    /\ calls = <<>>

\* the first call, for any requested level and configuration source
Bootstrap ==
    /\ calls = <<>>
    /\ \E level \in RequestedLevels, src \in Sources :
          LET out == setup_logging(level, src, logdirExists)
          IN  /\ active' = Activate(active, out)
              /\ logdirExists' = out.dirAfter
              /\ calls' = <<Call(level, src, out)>>
    /\ UNCHANGED <<pvars, mvars>>

\* a further call with the inputs of the first
Repeat ==
    /\ calls # <<>>
    /\ Len(calls) < MaxCalls
    /\ LET level == calls[1].level
           src == calls[1].src
           out == setup_logging(level, src, logdirExists)
       IN  /\ active' = Activate(active, out)
           /\ logdirExists' = out.dirAfter
           /\ calls' = Append(calls, Call(level, src, out))
    /\ UNCHANGED <<pvars, mvars>>

(***************************************************************************)
(* main: the command line                                                  *)
(***************************************************************************)
ActionChoices == {"ping", "erase", "read", "write", "verify", "getvoltage",
                  "getsupplyvoltage", "reboot-debugger", "setsupplyvoltage",
                  "getusbvoltage", "reset"}

VerboseChoices == {"debug", "info", "warning", "error", "critical"}

\* str.upper() of a verbosity
Upper(name) ==
    CASE name = "debug" -> "DEBUG" [] name = "info" -> "INFO"
      [] name = "warning" -> "WARNING" [] name = "error" -> "ERROR"
      [] name = "critical" -> "CRITICAL" [] OTHER -> name

\* the tokens given to -l and -D on the modelled command lines
MainTokens == {<<"1">>, <<"x">>, <<"1", ":", "x">>}

\* a command line: whether -V, --version, -R or --release-info is among the
\* tokens, the action token, the -v token, and the tokens of -l and of -D
\* (the empty list when the option is not given)
CommandLines ==
    [versionFlag : BOOLEAN,
     action : {Missing, "ping", "flash"},
     verbose : {Missing, "frantic"} \cup VerboseChoices,
     literal : {<<>>} \cup {<<t>> : t \in MainTokens},
     direct : {<<>>} \cup {<<t>> : t \in MainTokens}]

NoArguments == [action |-> Missing, verbose |-> Missing, literal |-> <<>>, direct |-> <<>>]

\* the nargs of the action positional: "?" with a version or release info
\* token on the command line, None (exactly one) without
ActionNargs(cl) == IF cl.versionFlag THEN "?" ELSE "None"

\* parser.parse_args(): the namespace, or the usage error that exits
parse_args(cl) ==
    LET lit == [i \in 1..Len(cl.literal) |-> GetValue(_parse_literal(cl.literal[i]))]
        dir == [i \in 1..Len(cl.direct) |-> GetValue(_parse_direct(cl.direct[i]))]
        bad == \/ cl.action = Missing /\ ActionNargs(cl) # "?"
               \/ cl.action # Missing /\ cl.action \notin ActionChoices
               \/ cl.verbose # Missing /\ cl.verbose \notin VerboseChoices
               \/ \E i \in 1..Len(lit) : lit[i].verdict = "usage error"
               \/ \E i \in 1..Len(dir) : dir[i].verdict = "usage error"
    IN  IF bad THEN [ok |-> FALSE, namespace |-> NoArguments]
        ELSE [ok |-> TRUE,
              namespace |->
                  [action |-> IF cl.action = Missing THEN "ping" ELSE cl.action,
                   verbose |-> IF cl.verbose = Missing THEN "warning" ELSE cl.verbose,
                   literal |-> [i \in 1..Len(lit) |-> lit[i].result],
                   direct |-> [i \in 1..Len(dir) |-> dir[i].result]]]

(***************************************************************************)
(* main: the engine call                                                   *)
(***************************************************************************)
\* what pymcuprog_main.pymcuprog(arguments) does: it returns a status, or an
\* exception leaves it.  KeyboardInterrupt and SystemExit derive from
\* BaseException only.
ExceptionClasses == {"PymcuprogError", "ValueError"}

BaseOnlyClasses == {"KeyboardInterrupt", "SystemExit"}

EngineOutcomes ==
    [kind : {"return"}, value : {"0", "1"}]
    \cup [kind : {"raise"}, value : ExceptionClasses \cup BaseOnlyClasses]

NoResult == [kind |-> "running", value |-> "None"]

\* isinstance(exc, Exception)
IsException(class) == class \in ExceptionClasses

\* a call on the module logger; the record is created only if the logger is
\* enabled for the severity, that is if the root level is not above it
LogCall(severity, text, config) ==
    [severity |-> severity, text |-> text, emitted |-> config.root <= severity]

\* the try statement around the engine call: the status is returned, an
\* Exception is logged twice and None is returned, anything else propagates
\* the try statement with 'except ValueError' in place of 'except Exception'
DispatchedCatchingValueError(e, config) ==
    IF e.kind = "return"
    THEN [result |-> [kind |-> "return", value |-> e.value], logged |-> <<>>]
    ELSE IF e.value = "ValueError"
         THEN [result |-> [kind |-> "return", value |-> "None"],
               logged |-> <<LogCall(Levels.ERROR, "Operation failed with " \o e.value, config),
                            LogCall(Levels.DEBUG, "traceback of " \o e.value, config)>>]
         ELSE [result |-> [kind |-> "raise", value |-> e.value], logged |-> <<>>]

Dispatched(e, config) ==
    IF e.kind = "return"
    THEN [result |-> [kind |-> "return", value |-> e.value], logged |-> <<>>]
    ELSE IF IsException(e.value)
         THEN [result |-> [kind |-> "return", value |-> "None"],
               logged |-> <<LogCall(Levels.ERROR, "Operation failed with " \o e.value, config),
                            LogCall(Levels.DEBUG, "traceback of " \o e.value, config)>>]
         ELSE [result |-> [kind |-> "raise", value |-> e.value], logged |-> <<>>]

(***************************************************************************)
(* main, phase by phase                                                    *)
(***************************************************************************)
MainInit ==
    /\ mpc = "start"
    /\ argv \in CommandLines
    /\ arguments = NoArguments
    /\ trace = <<>>
    /\ bootstrap = NoOutcome
    /\ engine = NoResult
    /\ logged = <<>>
    /\ mresult = NoResult
    /\ logdirExists \in BOOLEAN
    /\ active = NoConfig
    /\ calls = <<>>

\* what the call of setup_logging can do, over all configuration sources, by
\* requested level and by whether the log directory exists
BootstrapOutcomes ==
    [level \in {LevelOf(Upper(v)).val : v \in VerboseChoices}, dirExists \in BOOLEAN |->
        {setup_logging(level, src, dirExists) : src \in Sources}]

\* arguments = parser.parse_args()
ParseArgs ==
    /\ mpc = "start"
    /\ trace' = Append(trace, "parse_args")
    /\ IF parse_args(argv).ok
       THEN /\ arguments' = parse_args(argv).namespace
            /\ mpc' = "parsed"
            /\ UNCHANGED mresult
       ELSE /\ mpc' = "done"
            /\ mresult' = [kind |-> "raise", value |-> "SystemExit"]
            /\ UNCHANGED arguments
    /\ UNCHANGED <<argv, bootstrap, engine, logged, lvars, pvars>>

\* setup_logging(user_requested_level=getattr(logging, arguments.verbose.upper()))
SetupLogging ==
    /\ mpc = "parsed"
    /\ trace' = Append(trace, "setup_logging")
    /\ \E out \in BootstrapOutcomes[LevelOf(Upper(arguments.verbose)).val, logdirExists] :
              /\ bootstrap' = out
              /\ active' = Activate(active, out)
              /\ logdirExists' = out.dirAfter
              /\ IF out.raised = "none"
                 THEN mpc' = "configured" /\ UNCHANGED mresult
                 ELSE mpc' = "done" /\ mresult' = [kind |-> "raise", value |-> out.raised]
    /\ UNCHANGED <<argv, arguments, engine, logged, calls, pvars>>

\* the engine call placed before the logging bootstrap
DispatchBeforeBootstrap ==
    /\ mpc = "parsed"
    /\ trace' = Append(trace, "pymcuprog")
    /\ \E e \in EngineOutcomes :
          /\ engine' = e
          /\ mresult' = Dispatched(e, active).result
          /\ logged' = Dispatched(e, active).logged
    /\ mpc' = "done"
    /\ UNCHANGED <<argv, arguments, bootstrap, lvars, pvars>>

\* return pymcuprog_main.pymcuprog(arguments), inside the try statement
Dispatch ==
    /\ mpc = "configured"
    /\ trace' = Append(trace, "pymcuprog")
    /\ \E e \in EngineOutcomes :
          /\ engine' = e
          /\ mresult' = Dispatched(e, active).result
          /\ logged' = Dispatched(e, active).logged
    /\ mpc' = "done"
    /\ UNCHANGED <<argv, arguments, bootstrap, lvars, pvars>>

(***************************************************************************)
(* The value literal parsers applied to one token                          *)
(***************************************************************************)
ParseInit ==
    /\ token \in Tokens
    /\ pfunc = "none"
    /\ presult = NotCalled
    /\ verdict = "none"
    /\ logdirExists = FALSE
    /\ active = NoConfig
    /\ calls = <<>>
    /\ mpc = "idle"
    /\ argv = [versionFlag |-> FALSE, action |-> Missing, verbose |-> Missing,
               literal |-> <<>>, direct |-> <<>>]
    /\ arguments = NoArguments
    /\ trace = <<>>
    /\ bootstrap = NoOutcome
    /\ engine = NoResult
    /\ logged = <<>>
    /\ mresult = NoResult

\* one token of -l/--literal
LiteralArg ==
    /\ pfunc = "none"
    /\ pfunc' = "_parse_literal"
    /\ presult' = GetValue(_parse_literal(token)).result
    /\ verdict' = GetValue(_parse_literal(token)).verdict
    /\ UNCHANGED <<token, lvars, mvars>>

\* one token of -D/--direct
DirectArg ==
    /\ pfunc = "none"
    /\ pfunc' = "_parse_direct"
    /\ presult' = GetValue(_parse_direct(token)).result
    /\ verdict' = GetValue(_parse_direct(token)).verdict
    /\ UNCHANGED <<token, lvars, mvars>>

ParseNext == LiteralArg \/ DirectArg

ParseSpec == ParseInit /\ [][ParseNext]_vars

LogSpecInit ==
    /\ LogInit
    /\ token = <<>>
    /\ pfunc = "none"
    /\ presult = NotCalled
    /\ verdict = "none"
    /\ mpc = "idle"
    /\ argv = [versionFlag |-> FALSE, action |-> Missing, verbose |-> Missing,
               literal |-> <<>>, direct |-> <<>>]
    /\ arguments = NoArguments
    /\ trace = <<>>
    /\ bootstrap = NoOutcome
    /\ engine = NoResult
    /\ logged = <<>>
    /\ mresult = NoResult

LogNext == Bootstrap \/ Repeat

LogSpec == LogSpecInit /\ [][LogNext]_vars

MainSpecInit ==
    /\ MainInit
    /\ token = <<>>
    /\ pfunc = "none"
    /\ presult = NotCalled
    /\ verdict = "none"

MainNext == ParseArgs \/ SetupLogging \/ Dispatch

MainSpec == MainSpecInit /\ [][MainNext]_vars
(***************************************************************************)
(* Properties of the value literal parsers (ParseSpec)                     *)
(***************************************************************************)
Tok0x10 == <<"0", "x", "1", "0">>
Tok4c0x10 == <<"4", ":", "0", "x", "1", "0">>
Tok3p5 == <<"3", ".", "5">>

\* the first two colon separated fields of the token
Field(n) == Split(token, ":")[n]

\* C4: for a token without ':', _parse_literal returns the base-prefix-aware
\* integer when the token is a valid integer literal ("0x10" gives 16),
\* otherwise the float when it is a valid float ("3.5" gives 3.5), otherwise
\* it fails with ValueError; the integer reading has priority.
C4_LiteralIntThenFloat ==
    (pfunc = "_parse_literal" /\ ~Contains(token, ":")) =>
        /\ IntBase0(token).ok =>
              presult = Scalar(IntBase0(token).val) /\ presult.items[1].type = "int"
        /\ (~IntBase0(token).ok /\ FloatOf(token).ok) =>
              presult = Scalar(FloatOf(token).val) /\ presult.items[1].type = "float"
        /\ (~IntBase0(token).ok /\ ~FloatOf(token).ok) => presult = ValueError
        /\ token = Tok0x10 => presult = Scalar(PyInt(16))
        /\ token = Tok3p5 => presult = Scalar([type |-> "float", num |-> 35, scale |-> 1])

C4_Witness ==
    /\ pfunc = "_parse_literal"
    /\ token = Tok3p5
    /\ presult = Scalar([type |-> "float", num |-> 35, scale |-> 1])

\* C5: for a token with ':', whatever _parse_literal returns is a list of
\* exactly two integers, the integer values of the first two fields; "a:b"
\* with a and b valid integers gives [int(a), int(b)] ("4:0x10" gives
\* [4, 16]); the colon form never yields a float.
C5_LiteralPair ==
    (pfunc = "_parse_literal" /\ Contains(token, ":")) =>
        /\ presult.kind \in {"list", "ValueError"}
        /\ presult.kind = "list" =>
              /\ Len(presult.items) = 2
              /\ \A i \in 1..2 : presult.items[i].type = "int"
              /\ \A i \in 1..2 : IntBase0(Field(i)).ok /\ presult.items[i] = IntBase0(Field(i)).val
        /\ (IntBase0(Field(1)).ok /\ IntBase0(Field(2)).ok) =>
              presult = List(<<IntBase0(Field(1)).val, IntBase0(Field(2)).val>>)
        /\ token = Tok4c0x10 => presult = List(<<PyInt(4), PyInt(16)>>)

C5_Witness ==
    /\ pfunc = "_parse_literal"
    /\ token = Tok4c0x10
    /\ presult = List(<<PyInt(4), PyInt(16)>>)

C7_DirectOffsetIsInt ==
    (pfunc = "_parse_direct" /\ presult.kind = "list") => presult.items[1].type = "int"

\* C10: for a token without ':', _parse_direct raises nothing and returns
\* None, and argparse accepts the token as a --direct value.
C10_DirectWithoutColon ==
    (pfunc = "_parse_direct" /\ ~Contains(token, ":")) =>
        presult = None /\ verdict = "accepted"

C10_Witness ==
    /\ pfunc = "_parse_direct"
    /\ token = <<"x">>
    /\ presult = None
    /\ verdict = "accepted"

(***************************************************************************)
(* Properties of setup_logging (LogSpec)                                   *)
(***************************************************************************)
\* C1: setup_logging never fails outward: whatever the requested level and the
\* configuration source, the call returns normally having activated the
\* file-derived or the basic configuration.
C1_NeverFailsOutward ==
    \A i \in 1..Len(calls) :
        /\ calls[i].out.raised = "none"
        /\ calls[i].out.activated \in {"dictConfig", "basicConfig"}

SetMin(S) == CHOOSE m \in S : \A x \in S : m <= x

\* the declared levels of the handlers that carry a filename
FileLevels(hs) == {LevelOf(hs[i].level).val : i \in {j \in 1..Len(hs) : hs[j].hasFilename}}

ScenarioDHandlers ==
    <<[name |-> "console", hasFilename |-> FALSE, level |-> "DEBUG"],
      [name |-> "logfile", hasFilename |-> TRUE, level |-> "ERROR"]>>

\* C2: whenever dictConfig is reached, the root level it activates is the
\* minimum of the requested level, the declared root level and the declared
\* level of every handler with a filename, hence <= each of them (requested
\* INFO, root WARNING, one file handler ERROR gives INFO); a repeated call with
\* the same inputs activates the same root level.
C2_EffectiveVerbosity ==
    \A i \in 1..Len(calls) :
        LET c == calls[i]
            doc == c.src.doc
            declared == {c.level, LevelOf(doc.rootLevel).val} \cup FileLevels(doc.handlers)
        IN  /\ c.out.activated = "dictConfig" =>
                  /\ c.out.config.root = SetMin(declared)
                  /\ \A l \in declared : c.out.config.root <= l
                  /\ (c.level = Levels.INFO /\ doc.rootLevel = "WARNING"
                          /\ doc.handlers = ScenarioDHandlers) => c.out.config.root = Levels.INFO
                  /\ i = Len(calls) => active = c.out.config
            /\ calls[1].out.activated = "dictConfig" =>
                  /\ c.out.activated = "dictConfig"
                  /\ c.out.config.root = calls[1].out.config.root

\* the scenario, bootstrapped twice, with the log directory made by the first
C2_Witness ==
    /\ Len(calls) = 2
    /\ calls[1].level = Levels.INFO
    /\ calls[1].src.doc.rootLevel = "WARNING"
    /\ calls[1].src.doc.handlers = ScenarioDHandlers
    /\ calls[1].src.mkdirOk
    /\ calls[2].out.activated = "dictConfig"
    /\ active.root = Levels.INFO

\* the three injected failures of the configuration source
Injected(src) ==
    \/ ~src.exists
    \/ src.exists /\ src.load # "ok"
    \/ src.exists /\ src.load = "ok" /\ src.doc.kind = "mapping" /\ ~src.doc.hasHandlers

\* C3: for a missing file, malformed YAML and a missing 'handlers' key,
\* setup_logging prints a diagnostic of the failure, then that basic logging
\* is used, then activates basic logging at the requested level, and never
\* reaches dictConfig.
C3_InjectedFailuresFallBack ==
    \A i \in 1..Len(calls) :
        Injected(calls[i].src) =>
            /\ calls[i].out.raised = "none"
            /\ Len(calls[i].out.printed) = 2
            /\ calls[i].out.printed[2] = "Reverting to basic logging."
            /\ calls[i].out.activated = "basicConfig"
            /\ calls[i].out.config.kind = "basic"
            /\ calls[i].out.config.root = calls[i].level

(***************************************************************************)
(* Properties of main (MainSpec)                                           *)
(***************************************************************************)
\* C8, as claimed: whatever exception the engine call raises, it is caught,
\* an error call with its kind and then a debug call with the traceback are
\* made on the logger, and main returns normally; a status the engine
\* returns is returned unchanged.
C8_NeverReraises ==
    (mpc = "done" /\ engine.kind = "raise") =>
        /\ mresult = [kind |-> "return", value |-> "None"]
        /\ Len(logged) = 2
        /\ logged[1].severity = Levels.ERROR
        /\ logged[2].severity = Levels.DEBUG

\* C8, amended: an exception of a class derived from Exception is caught, an
\* error call naming its class and then a debug call with the traceback are
\* made on the logger, and main returns None; an exception derived from
\* BaseException only (KeyboardInterrupt, SystemExit) leaves main unlogged; a
\* status the engine returns is returned unchanged.
C8_CatchesExceptions ==
    (mpc = "done" /\ engine.kind # "running") =>
        /\ (engine.kind = "raise" /\ engine.value \in ExceptionClasses) =>
              /\ mresult = [kind |-> "return", value |-> "None"]
              /\ Len(logged) = 2
              /\ logged[1].severity = Levels.ERROR
              /\ logged[1].text = "Operation failed with " \o engine.value
              /\ logged[2].severity = Levels.DEBUG
        /\ (engine.kind = "raise" /\ engine.value \in BaseOnlyClasses) =>
              mresult = [kind |-> "raise", value |-> engine.value] /\ logged = <<>>
        /\ engine.kind = "return" =>
              mresult = [kind |-> "return", value |-> engine.value] /\ logged = <<>>

C8_Witness ==
    /\ mpc = "done"
    /\ engine = [kind |-> "raise", value |-> "PymcuprogError"]
    /\ mresult = [kind |-> "return", value |-> "None"]
    /\ Len(logged) = 2

Phases == <<"parse_args", "setup_logging", "pymcuprog">>

\* a token violates its type or its choices, or the action is missing and no
\* version or release info token is given
UsageError(cl) ==
    \/ cl.action = Missing /\ ~cl.versionFlag
    \/ cl.action \notin ActionChoices \cup {Missing}
    \/ cl.verbose \notin VerboseChoices \cup {Missing}
    \/ \E i \in 1..Len(cl.literal) : _parse_literal(cl.literal[i]) = ValueError
    \/ \E i \in 1..Len(cl.direct) : _parse_direct(cl.direct[i]) = ValueError

\* C9: the phases of main come in the order argument parsing, logging
\* bootstrap, engine call; the engine is called at most once, only after the
\* arguments parsed and setup_logging activated a configuration at the parsed
\* verbosity; when parsing fails the run ends with no logging activated and
\* no engine call.
C9_PhaseOrder ==
    /\ Len(trace) <= 3
    /\ trace = SubSeq(Phases, 1, Len(trace))
    /\ Len(trace) = 3 =>
          /\ ~UsageError(argv)
          /\ arguments # NoArguments
          /\ bootstrap.raised = "none"
          /\ bootstrap.activated \in {"dictConfig", "basicConfig"}
          /\ active = bootstrap.config
          /\ active.console = LevelOf(Upper(arguments.verbose)).val
    /\ engine.kind # "running" => Len(trace) = 3
    /\ (mpc # "start" /\ UsageError(argv)) =>
          /\ mpc = "done"
          /\ trace = <<"parse_args">>
          /\ mresult = [kind |-> "raise", value |-> "SystemExit"]
          /\ active = NoConfig
          /\ bootstrap.activated = "none"
          /\ engine = NoResult
    /\ (mpc # "start" /\ ~UsageError(argv)) => arguments # NoArguments

\* a run without an action token, allowed by a version token, through to the
\* engine under the file-derived configuration
C9_Witness ==
    /\ mpc = "done"
    /\ trace = Phases
    /\ argv.action = Missing
    /\ argv.versionFlag
    /\ active.kind = "file"
    /\ engine.kind = "return"
====
